---- MODULE Spec2Model ----
(***************************************************************************)
(* NetworkXLabelGraphClusterer (skmultilearn/cluster/networkx.py).         *)
(*                                                                         *)
(* The clusterer object holds a graph builder (with its is_weighted flag)  *)
(* and a method string.  fit_predict(X, y) asks the builder for an edge    *)
(* map, stores weights_ and graph_, calls an external community detector   *)
(* and converts the detector's answer to a list of label lists.            *)
(*                                                                         *)
(* Python values are encoded as follows.                                   *)
(*   dict (insertion ordered)   a sequence of entries, in insertion order  *)
(*   nx.Graph                   nodes: the node list in insertion order;   *)
(*                              adj: node -> neighbour entries in          *)
(*                              insertion order (networkx keeps both in    *)
(*                              dicts)                                     *)
(*   None as an edge weight     NoneW; numeric weights are 1, 2, ...       *)
(*   an exception               outcome = "raised" and its class in error  *)
(***************************************************************************)
EXTENDS Integers, Sequences, FiniteSets, TLC

\* ---------------------------------------------------------------- bounds
MaxLabels == 4        \* label columns of y in the partition-focused calls
MaxGraphLabels == 3   \* label columns of y in the graph-focused calls
MaxEdges == 2         \* entries of the edge map in the graph-focused calls
MaxWeight == 2        \* numeric edge weights are 1..MaxWeight
MaxCommunity == 2     \* community ids the detector hands out are 0..MaxCommunity
MaxReuseLabels == 2   \* label columns of y when one clusterer is called repeatedly

NoneW == 0            \* Python's None in the place of an edge weight

VARIABLES
    method,       \* self.method
    is_weighted,  \* self.graph_builder.is_weighted
    graph_,       \* self.graph_
    weights_,     \* self.weights_ (the value under its 'weight' key)
    y_cols,       \* y.shape[1] of the most recent call
    edge_map,     \* the edge map the builder returned in the most recent call
    detected,     \* what the external detector call produced in that call
    outcome,      \* "none" before any call, then "returned" or "raised"
    error,        \* the exception class when outcome = "raised"
    result,       \* the returned numpy array when outcome = "returned"
    prev_larger   \* whether the call before the most recent one, if any, had
                  \* more label columns than the most recent one

vars == <<method, is_weighted, graph_, weights_, y_cols, edge_map, detected,
          outcome, error, result, prev_larger>>

Methods == {"louvain", "label_propagation", "unknown"}

\* ------------------------------------------------------------- utilities
Range(s) == {s[i] : i \in 1..Len(s)}

Max(S) == CHOOSE m \in S : \A x \in S : x <= m

Min(S) == CHOOSE m \in S : \A x \in S : m <= x

RECURSIVE SortedSeq(_)
SortedSeq(S) == IF S = {} THEN <<>> ELSE <<Min(S)>> \o SortedSeq(S \ {Min(S)})

\* ------------------------------------------------- networkx.Graph (line 152)
\* nx.Graph(): no node, no edge.
EmptyGraph == [nodes |-> <<>>, adj |-> [n \in {} |-> <<>>]]

NodeSet(g) == Range(g.nodes)

\* Graph.add_node(n): a node already present keeps its place and its edges.
add_node(g, n) ==
    IF n \in NodeSet(g) THEN g
    ELSE [nodes |-> Append(g.nodes, n),
          adj   |-> [m \in NodeSet(g) \cup {n} |->
                        IF m = n THEN <<>> ELSE g.adj[m]]]

\* self._adj[u][v] = datadict: a neighbour already present keeps its place
\* and gets the new weight, a new neighbour goes last.
SetNbr(row, v, w) ==
    IF \E i \in 1..Len(row) : row[i].nbr = v
    THEN [i \in 1..Len(row) |->
             IF row[i].nbr = v THEN [nbr |-> v, weight |-> w] ELSE row[i]]
    ELSE Append(row, [nbr |-> v, weight |-> w])

\* Graph.add_edge(u, v, weight=w): adds the missing end points, then records
\* the edge in both adjacency rows.
add_edge(g, u, v, w) ==
    LET g1   == add_node(add_node(g, u), v)
        adj1 == [g1.adj EXCEPT ![u] = SetNbr(@, v, w)]
        adj2 == [adj1 EXCEPT ![v] = SetNbr(@, u, w)]
    IN  [nodes |-> g1.nodes, adj |-> adj2]

\* Graph.edges(data=True) in iteration order: nodes in insertion order, for
\* each its neighbours in insertion order, an edge reported from the end
\* point that comes first.
RECURSIVE EdgesFrom(_, _, _)
EdgesFrom(g, i, seen) ==
    IF i > Len(g.nodes) THEN <<>>
    ELSE LET n    == g.nodes[i]
             keep == SelectSeq(g.adj[n], LAMBDA e : e.nbr \notin seen)
         IN  [k \in 1..Len(keep) |->
                 [u |-> n, v |-> keep[k].nbr, weight |-> keep[k].weight]]
             \o EdgesFrom(g, i + 1, seen \cup {n})

Edges(g) == EdgesFrom(g, 1, {})

\* --------------------------------------- the graph builder (collaborator)
\* Keys of an edge map over L labels: pairs (a, b) of distinct label indices,
\* each unordered pair once.
Pairs(L) == {<<a, b>> : a \in 0..(L - 1), b \in 0..(L - 1)} \ 
            {p \in (0..(L - 1)) \X (0..(L - 1)) : p[1] >= p[2]}

\* The key orders a dict of at most n entries can have.
RECURSIVE KeySeqs(_, _)
KeySeqs(P, n) ==
    IF n = 0 THEN {<<>>}
    ELSE LET S == KeySeqs(P, n - 1)
         IN  S \cup UNION {{Append(s, p) : p \in P \ Range(s)} :
                              s \in {t \in S : Len(t) = n - 1}}

\* The marker an unweighted builder puts in the place of a weight.
UnweightedMarkers == {NoneW, 1}

\* graph_builder.transform(y): the edge maps a builder can return for a label
\* matrix of L columns; a weighted builder gives every key a numeric weight,
\* an unweighted one gives every key the same marker.
EdgeMaps(L, weighted, n) ==
    UNION {IF weighted
           THEN {[i \in 1..Len(ks) |-> [key |-> ks[i], w |-> ws[i]]] :
                    ws \in [1..Len(ks) -> 1..MaxWeight]}
           ELSE {[i \in 1..Len(ks) |-> [key |-> ks[i], w |-> m]] :
                    m \in UnweightedMarkers}
           : ks \in KeySeqs(Pairs(L), n)}

\* The edge map of the documented scenario, cut down to L labels:
\* {(0,1): 2.0, (1,2): 1.0} for a weighted builder.
ChainEdgeMap(L, weighted, m) ==
    LET ks == SelectSeq(<<<<0, 1>>, <<1, 2>>>>, LAMBDA k : k[2] < L)
        ws == <<2, 1>>
    IN  [i \in 1..Len(ks) |->
            [key |-> ks[i], w |-> IF weighted THEN ws[i] ELSE m]]

\* ------------------------------------------------ fit_predict, lines 145-157
\* lines 147-150: self.weights_
WeightsAttr(em, weighted) ==
    IF weighted
    THEN [kind |-> "list", weight |-> [i \in 1..Len(em) |-> em[i].w]]
    ELSE [kind |-> "None", weight |-> <<>>]

\* The graph of the call before, as fit_predict would find it had it not
\* made a new one.
ReusedGraph == graph_

\* line 152: self.graph_ = nx.Graph()
NewGraph == EmptyGraph

\* No node but the end points of the edges.
RECURSIVE AddNodesSkipped(_, _, _)
AddNodesSkipped(g, n, L) == g

\* lines 153-154: for n in range(y.shape[1]): self.graph_.add_node(n)
RECURSIVE AddNodes(_, _, _)
AddNodes(g, n, L) == IF n >= L THEN g ELSE AddNodes(add_node(g, n), n + 1, L)

\* lines 156-157: for e, w in edge_map.items(): add_edge(e[0], e[1], weight=w)
RECURSIVE AddEdges(_, _, _)
AddEdges(g, em, i) ==
    IF i > Len(em) THEN g
    ELSE AddEdges(add_edge(g, em[i].key[1], em[i].key[2], em[i].w), em, i + 1)

BuildGraph(L, em) == AddEdges(AddNodes(NewGraph, 0, L), em, 1)

\* ------------------------------------------- the external detectors
\* What the detection library does in one call: it either raises, or
\* assigns the community f[n] to every node n of the graph it was given,
\* except to the nodes in drop (none, for a detector that honours its
\* contract).
Oracles(g) ==
    {[fails |-> TRUE, f |-> [n \in NodeSet(g) |-> 0], drop |-> {}]} \cup
    {[fails |-> FALSE, f |-> f, drop |-> d] :
        f \in [NodeSet(g) -> 0..MaxCommunity],
        d \in {{}} \cup {{n} : n \in NodeSet(g)}}

Raised(e) == [kind |-> "raise", err |-> e, map |-> [n \in {} |-> 0], groups |-> <<>>]

\* community.best_partition(graph): a dict node -> community id.
best_partition(g, o) ==
    [kind |-> "dict", err |-> "",
     map |-> [n \in NodeSet(g) \ o.drop |-> o.f[n]], groups |-> <<>>]

\* nx.asyn_lpa_communities(graph, 'weight'): an iterator over the communities,
\* each a set of nodes.  It is neither subscriptable nor has it .values().
asyn_lpa_communities(g, o) ==
    LET ids == SortedSeq({o.f[n] : n \in NodeSet(g) \ o.drop})
    IN  [kind |-> "iterator", err |-> "", map |-> [n \in {} |-> 0],
         groups |-> [k \in 1..Len(ids) |->
                        {n \in NodeSet(g) \ o.drop : o.f[n] = ids[k]}]]

\* ------------------------------------------------ fit_predict, lines 159-171
\* line 159: the only method string the dispatch looks for.
IsLouvain(m) == m = "louvain"

\* lines 159-162: an exception of the detector call is not caught.
Detect(m, g, o) ==
    IF o.fails THEN Raised("AlgorithmFailure")
    ELSE IF IsLouvain(m) THEN best_partition(g, o)
    ELSE asyn_lpa_communities(g, o)

Ok(v) == [ok |-> TRUE, err |-> "", val |-> v]

Err(e) == [ok |-> FALSE, err |-> e, val |-> <<>>]

\* The vector of the labels that have an entry, the others left out.
MembershipVectorSkipping(pd, L) ==
    IF pd.kind # "dict" THEN Err("TypeError")
    ELSE Ok(SelectSeq([i \in 1..L |-> i - 1], LAMBDA i : i \in DOMAIN pd.map))

\* lines 166-168: [partition_dict[i] for i in range(y.shape[1])]
MembershipVector(pd, L) ==
    IF L = 0 THEN Ok(<<>>)
    ELSE IF pd.kind # "dict" THEN Err("TypeError")
    ELSE IF \E i \in 0..(L - 1) : i \notin DOMAIN pd.map THEN Err("KeyError")
    ELSE Ok([i \in 1..L |-> pd.map[i - 1]])

\* max(partition_dict.values()), one entry short.
CommunityCountShort(pd) ==
    IF pd.kind # "dict" THEN Err("AttributeError")
    ELSE IF DOMAIN pd.map = {} THEN Err("ValueError")
    ELSE Ok(Max({pd.map[n] : n \in DOMAIN pd.map}))

\* line 169: 1+max(partition_dict.values())
CommunityCount(pd) ==
    IF pd.kind # "dict" THEN Err("AttributeError")
    ELSE IF DOMAIN pd.map = {} THEN Err("ValueError")
    ELSE Ok(1 + Max({pd.map[n] : n \in DOMAIN pd.map}))

\* helpers._membership_to_list_of_communities(membership_vector, size):
\* entry c lists, in ascending order, the positions of the vector holding c.
membership_to_list_of_communities(vec, size) ==
    [c \in 1..size |->
        SelectSeq([i \in 1..Len(vec) |-> i - 1], LAMBDA i : vec[i + 1] = c - 1)]

\* np.array(list of lists): a 2-d array when all rows have one length, else a
\* 1-d array of lists (the "array of arrays" of the docstring, line 142); the
\* rows and their order are kept.
NpArray(rows) ==
    [ndim |-> IF rows # <<>> /\ \A c \in 1..Len(rows) : Len(rows[c]) = Len(rows[1])
              THEN 2 ELSE 1,
     rows |-> rows]

NoResult == [ndim |-> 0, rows |-> <<>>]

\* lines 164-171: the arguments are evaluated left to right, the first
\* exception ends the call.
Convert(pd, L) ==
    LET vec  == MembershipVector(pd, L)
        size == CommunityCount(pd)
    IN  IF pd.kind = "raise" THEN [status |-> "raised", err |-> pd.err, val |-> NoResult]
        ELSE IF ~vec.ok THEN [status |-> "raised", err |-> vec.err, val |-> NoResult]
        ELSE IF ~size.ok THEN [status |-> "raised", err |-> size.err, val |-> NoResult]
        ELSE [status |-> "returned", err |-> "",
              val |-> NpArray(membership_to_list_of_communities(vec.val, size.val))]

\* ------------------------------------------------------------- the actions
NoWeights == [kind |-> "unset", weight |-> <<>>]

\* __init__(graph_builder, method), lines 114-123: a new clusterer has neither
\* graph_ nor weights_.
Init ==
    /\ method \in Methods
    /\ is_weighted \in BOOLEAN
    /\ graph_ = EmptyGraph
    /\ weights_ = NoWeights
    /\ y_cols = 0
    /\ edge_map = <<>>
    /\ detected = Raised("")
    /\ outcome = "none"
    /\ error = ""
    /\ result = NoResult
    /\ prev_larger = FALSE

\* A new clusterer takes the place of the one that served a call.
Construct ==
    /\ outcome # "none"
    /\ method' \in Methods
    /\ is_weighted' \in BOOLEAN
    /\ graph_' = EmptyGraph
    /\ weights_' = NoWeights
    /\ y_cols' = 0
    /\ edge_map' = <<>>
    /\ detected' = Raised("")
    /\ outcome' = "none"
    /\ error' = ""
    /\ result' = NoResult
    /\ prev_larger' = FALSE

\* fit_predict(X, y), lines 125-171, for a label matrix of L columns, the
\* edge map em of the builder and the detector behaving as o.
FitPredict(L, em, o) ==
    LET g   == BuildGraph(L, em)
        det == Detect(method, g, o)
        out == Convert(det, L)
    IN  /\ weights_' = WeightsAttr(em, is_weighted)
        /\ graph_' = g
        /\ y_cols' = L
        /\ edge_map' = em
        /\ detected' = det
        /\ outcome' = out.status
        /\ error' = out.err
        /\ result' = out.val
        /\ prev_larger' = (outcome # "none" /\ y_cols > L)
        /\ UNCHANGED <<method, is_weighted>>

\* The first call on a clusterer, over the edge maps of up to MaxEdges entries.
FitPredictGraphs ==
    /\ outcome = "none"
    /\ \E L \in 0..MaxGraphLabels :
         \E em \in EdgeMaps(L, is_weighted, MaxEdges) :
           \E o \in {x \in Oracles(BuildGraph(L, em)) :
                        x.drop = {} /\ \A n \in DOMAIN x.f : x.f[n] = 0} :
             FitPredict(L, em, o)

\* The first call on a clusterer, over every answer of the detector.
FitPredictPartitions ==
    /\ outcome = "none"
    /\ \E L \in 0..MaxLabels :
         \E m \in (IF is_weighted THEN {1} ELSE UnweightedMarkers) :
           \E o \in Oracles(BuildGraph(L, ChainEdgeMap(L, is_weighted, m))) :
             FitPredict(L, ChainEdgeMap(L, is_weighted, m), o)

\* A call on a clusterer whatever calls it has served before.
FitPredictAgain ==
    \E L \in 0..MaxReuseLabels :
      \E em \in EdgeMaps(L, is_weighted, 1) :
        \E o \in {x \in Oracles(BuildGraph(L, em)) :
                     x.drop \subseteq {0} /\ \A n \in DOMAIN x.f : x.f[n] <= 1} :
          FitPredict(L, em, o)

Next == Construct \/ FitPredictGraphs \/ FitPredictPartitions

Spec == Init /\ [][Next]_vars

NextReuse == Construct \/ FitPredictAgain

SpecReuse == Init /\ [][NextReuse]_vars

\* -------------------------------------------------------- the properties
Called == outcome # "none"

Labels == 0..(y_cols - 1)

Rows == result.rows

\* The detector handed back a mapping with a community id for every label.
Covered == detected.kind = "dict" /\ Labels \subseteq DOMAIN detected.map

\* The entries of the returned list that hold label i.
EntriesOf(i) == {c \in 1..Len(Rows) : i \in Range(Rows[c])}

\* Every entry lists its labels in ascending order, none twice.
Ascending ==
    \A c \in 1..Len(Rows) :
        \A j, k \in 1..Len(Rows[c]) : j < k => Rows[c][j] < Rows[c][k]

\* C1: when the detector's assignment gives a community id to every one of
\* the L >= 1 labels, fit_predict returns a list of 1 + max(assignment
\* values) entries, every label 0..L-1 is in exactly one entry (the one of
\* its community id), no entry holds anything else, and every entry is
\* ascending.
C1_MembershipList ==
    (Called /\ Covered /\ y_cols >= 1) =>
        /\ outcome = "returned"
        /\ Len(Rows) = 1 + Max({detected.map[n] : n \in DOMAIN detected.map})
        /\ \A i \in Labels : EntriesOf(i) = {detected.map[i] + 1}
        /\ \A c \in 1..Len(Rows) : Range(Rows[c]) \subseteq Labels
        /\ Ascending

\* Four labels in communities 0 and 2, community 1 left empty.
C1_Witness ==
    /\ outcome = "returned" /\ Covered /\ y_cols = 4
    /\ Len(Rows) = 3 /\ Rows[2] = <<>>
    /\ Len(Rows[1]) = 3 /\ Rows[3] = <<2>>

\* The unordered pairs joined by an edge of graph g.
EdgePairs(g) == {{e.u, e.v} : e \in Range(Edges(g))}

\* C2: the graph assembled by fit_predict has exactly L nodes, 0..L-1
\* (labels without an edge included), and exactly len(edge_map) edges, the
\* ones the keys of the edge map name.
C2_GraphShape ==
    Called =>
        /\ Len(graph_.nodes) = y_cols
        /\ NodeSet(graph_) = Labels
        /\ Len(Edges(graph_)) = Len(edge_map)
        /\ EdgePairs(graph_) = {{e.key[1], e.key[2]} : e \in Range(edge_map)}

\* Three labels, one of them without an edge, and one edge.
C2_Witness ==
    /\ Called /\ y_cols = 3 /\ Len(edge_map) = 1
    /\ \E n \in NodeSet(graph_) : graph_.adj[n] = <<>>
    /\ Len(Edges(graph_)) = 1

\* C3: with a method string other than "louvain" and "label_propagation",
\* the call fails with an UnsupportedMethodError and the label-propagation
\* detector is not used.
C3_UnsupportedMethod ==
    (Called /\ method \notin {"louvain", "label_propagation"}) =>
        /\ outcome = "raised"
        /\ error = "UnsupportedMethodError"
        /\ detected.kind # "iterator"

\* The list of label lists a sequence of groups stands for, ids given in the
\* order of the groups, starting at 0.
GroupLists(groups) == [k \in 1..Len(groups) |-> SortedSeq(groups[k])]

\* C4: with method "label_propagation" the groups the detector returns are
\* numbered from 0 in their order and fit_predict returns their membership
\* list: [[0,1,2],[3]] for L = 4 and the groups [{0,1,2},{3}].
C4_LabelPropagation ==
    (Called /\ method = "label_propagation" /\ detected.kind = "iterator"
        /\ y_cols = 4 /\ detected.groups = <<{0, 1, 2}, {3}>>) =>
        /\ outcome = "returned"
        /\ Rows = GroupLists(detected.groups)
        /\ Rows = <<<<0, 1, 2>>, <<3>>>>

\* C5: for a label matrix without columns, fit_predict builds the empty
\* graph and returns the empty membership list; it does not raise.
C5_NoLabels ==
    (Called /\ y_cols = 0 /\ detected.kind # "raise") =>
        /\ graph_ = EmptyGraph
        /\ outcome = "returned"
        /\ Rows = <<>>

\* C6: when the detector's partition has no entry for some label, the call
\* fails with a MissingAssignmentError and returns no list.
C6_MissingAssignment ==
    (Called /\ detected.kind = "dict" /\ ~(Labels \subseteq DOMAIN detected.map)) =>
        /\ outcome = "raised"
        /\ error = "MissingAssignmentError"
        /\ result = NoResult

\* The weight an edge of the graph carries for the key <<a, b>>.
WeightsOf(g, a, b) ==
    {e.weight : e \in {x \in Range(Edges(g)) : {x.u, x.v} = {a, b}}}

\* C7: with an unweighted builder every edge of the graph carries one and
\* the same neutral weight and none carries None; with a weighted builder
\* the edge (a, b) carries edge_map[(a, b)].
C7_EdgeWeights ==
    Called =>
        /\ ~is_weighted =>
              /\ \A e \in Range(Edges(graph_)) : e.weight # NoneW
              /\ Cardinality({e.weight : e \in Range(Edges(graph_))}) <= 1
        /\ is_weighted =>
              \A k \in 1..Len(edge_map) :
                  WeightsOf(graph_, edge_map[k].key[1], edge_map[k].key[2])
                      = {edge_map[k].w}

\* C8: a call ends in one of two ways: it returns a list holding every
\* label of [0, L), or it raises and returns nothing; an exception of the
\* detector call is the exception the caller gets.
C8_NoPartialSuccess ==
    Called =>
        /\ outcome \in {"returned", "raised"}
        /\ outcome = "returned" =>
              /\ error = ""
              /\ \A i \in Labels : Cardinality(EntriesOf(i)) = 1
        /\ outcome = "raised" => result = NoResult /\ error # ""
        /\ detected.kind = "raise" => outcome = "raised" /\ error = detected.err

\* The detector left one of three labels without a community: the call
\* raised and returned nothing.
C8_Witness ==
    /\ Called /\ y_cols = 3 /\ detected.kind = "dict"
    /\ DOMAIN detected.map = {0, 2}
    /\ outcome = "raised" /\ result = NoResult

\* C9: with a weighted builder weights_['weight'] lists the weights of the
\* graph's edges in the graph's edge order; with an unweighted one it is
\* None.
C9_WeightsInEdgeOrder ==
    Called =>
        /\ is_weighted =>
              /\ weights_.kind = "list"
              /\ weights_.weight =
                    [i \in 1..Len(Edges(graph_)) |-> Edges(graph_)[i].weight]
        /\ ~is_weighted => weights_.kind = "None"

\* C10: after any sequence of calls, graph_ and weights_ hold the nodes,
\* the edges and the weights of the most recent call and nothing of an
\* earlier one, and the call returns what a new clusterer returns: the list
\* that the community ids of this call's labels alone determine.
C10_NoCarriedState ==
    Called =>
        /\ graph_.nodes = [i \in 1..y_cols |-> i - 1]
        /\ EdgePairs(graph_) = {{e.key[1], e.key[2]} : e \in Range(edge_map)}
        /\ \A k \in 1..Len(edge_map) :
              WeightsOf(graph_, edge_map[k].key[1], edge_map[k].key[2])
                  = {edge_map[k].w}
        /\ weights_ = IF is_weighted
                      THEN [kind |-> "list",
                            weight |-> [i \in 1..Len(edge_map) |-> edge_map[i].w]]
                      ELSE [kind |-> "None", weight |-> <<>>]
        /\ detected.kind = "dict" => DOMAIN detected.map \subseteq Labels
        /\ outcome = "returned" =>
              /\ Len(Rows) = 1 + Max({detected.map[i] : i \in Labels})
              /\ \A i \in Labels : EntriesOf(i) = {detected.map[i] + 1}

\* A call that returned, for a label matrix without co-occurring labels, on
\* a clusterer whose call before had more labels.
C10_Witness ==
    /\ outcome = "returned" /\ prev_larger /\ y_cols >= 1
    /\ Len(edge_map) = 0

====
